---- MODULE Spec2Model ----
(***************************************************************************)
(* RAMCloud Log (src/src/Log.cc) and BackupManager                         *)
(* (src/src/BackupManager.cc) as a state machine.                          *)
(*                                                                         *)
(* The Log and the BackupManager are single-threaded: every public method  *)
(* is one atomic action.  A method body is written as an operator on a     *)
(* record S holding the fields of both objects, so that a method can call  *)
(* another (Log::append -> Segment::close -> BackupManager::closeSegment)  *)
(* exactly as the code does; the action then installs the resulting record *)
(* in the variables.                                                       *)
(*                                                                         *)
(* Segment and LogCleaner have no source here; they are modelled from the  *)
(* specification's Segment contract and cleaner contract.                  *)
(***************************************************************************)
EXTENDS Integers, Sequences, FiniteSets, TLC

VARIABLES
    \* ---- Log fields (Log.cc:47-58)
    logCapacity,            \* constructor argument, in bytes
    segmentFreeList,        \* vector<void *>: sequence of buffer base addresses
    nextSegmentId,
    maximumAppendableBytes,
    head,                   \* Segment* : a handle into segs, or NULL
    callbackMap,            \* entry type      -> LogTypeCallback
    activeIdMap,            \* segment id      -> Segment*
    activeBaseAddressMap,   \* base address    -> Segment*
    \* ---- the Segment objects the Log has constructed, by handle
    segs,
    \* ---- BackupManager fields (BackupManager.cc:28-32)
    coordinator,
    hosts,
    openHosts,
    replicas,
    segments,               \* multimap segmentId -> session, in key order
    \* ---- environment and observation
    rpcs,                   \* remote BackupClient calls issued so far, in order
    fatal,                  \* the DIE message that ended the process, or NoFatal
    lastOp,                 \* the call made by the last step and how it ended
    ptrs,                   \* pointers returned by Log::append, with their Segment
    lastTerminal,           \* most recent direct openSegment / closeSegment call
    calls,                  \* number of direct BackupManager calls made
    iterations,             \* passes of the do-while loop, when the last call was an append
    trace,                  \* what the last call invoked and logged, in order
    backups                 \* the ServerList a recovery is given, with each
                            \* backup's answer to getRecoveryData

vars == <<logCapacity, segmentFreeList, nextSegmentId, maximumAppendableBytes,
          head, activeIdMap, activeBaseAddressMap, segs, coordinator, hosts,
          openHosts, replicas, segments, rpcs, fatal, lastOp, ptrs,
          lastTerminal, calls, callbackMap, iterations, trace, backups>>

-----------------------------------------------------------------------------
(* Bounds of the model *)

\* Largest pool: logCapacity ranges over 1..MaxBuffers segments' worth.
MaxBuffers == 2

\* Segments one Log creates before the model stops creating more.
MaxSegments == 3

\* Replication factors 0..MaxReplicas.
MaxReplicas == 2

\* Direct BackupManager calls in one run of SpecBM.
MaxCalls == 5

-----------------------------------------------------------------------------
(* Program constants *)

NULL == 0

\* Log constructor arguments.
logId == 1
segmentCapacity == 8

\* generateRandom() returns a uint64_t and selectOpenHosts increments it with
\* wrap-around.  RandomModulus stands for 2^64: 16 = 2^4 and 2^64 = 16^16
\* leave the same remainder modulo every host-list size 1..8, so the index
\* sequence (random % numHosts) around the wrap is the one the code produces.
RandomModulus == 16

\* Segment framing (Segment contract): every entry carries an entry header;
\* a segment starts with a header entry and is closed with a footer entry.
EntryHeaderBytes == 1
SegmentHeaderBytes == 1
SegmentFooterBytes == 1

NoFatal == "none"
BACKUP == "BACKUP"
MASTER == "MASTER"

Host(loc, type) == [service_locator |-> loc, server_type |-> type]

\* Server lists a coordinator or setHostList may supply.
HostLists ==
    { <<>>,
      <<Host("b1", BACKUP)>>,
      <<Host("b1", BACKUP), Host("m1", MASTER), Host("b2", BACKUP)>> }

NoCoordinator == [isNull |-> TRUE, serverList |-> <<>>]

-----------------------------------------------------------------------------
(* The record of all fields a method body works on *)

Cur ==
    [logCapacity |-> logCapacity,
     segmentFreeList |-> segmentFreeList,
     nextSegmentId |-> nextSegmentId,
     maximumAppendableBytes |-> maximumAppendableBytes,
     head |-> head,
     activeIdMap |-> activeIdMap,
     activeBaseAddressMap |-> activeBaseAddressMap,
     segs |-> segs,
     coordinator |-> coordinator,
     hosts |-> hosts,
     openHosts |-> openHosts,
     replicas |-> replicas,
     segments |-> segments,
     rpcs |-> rpcs,
     fatal |-> fatal]

Install(S) ==
    /\ logCapacity' = S.logCapacity
    /\ segmentFreeList' = S.segmentFreeList
    /\ nextSegmentId' = S.nextSegmentId
    /\ maximumAppendableBytes' = S.maximumAppendableBytes
    /\ head' = S.head
    /\ activeIdMap' = S.activeIdMap
    /\ activeBaseAddressMap' = S.activeBaseAddressMap
    /\ segs' = S.segs
    /\ coordinator' = S.coordinator
    /\ hosts' = S.hosts
    /\ openHosts' = S.openHosts
    /\ replicas' = S.replicas
    /\ segments' = S.segments
    /\ rpcs' = S.rpcs
    /\ fatal' = S.fatal

\* DIE(msg): the process ends; the fields stay as they were at that point.
DIE(S, msg) == [S EXCEPT !.fatal = msg]

\* One remote call through a BackupClient: `client` is the position of the
\* BackupClient object among those of its fan-out, `session` its session.
Rpc(op, masterId, segmentId, client, session, offset, len) ==
    [op |-> op, masterId |-> masterId, segmentId |-> segmentId,
     client |-> client, session |-> session, offset |-> offset, len |-> len]

\* A map (std::map) with one key added or overwritten, and with one key erased.
MapPut(m, k, v) == [x \in DOMAIN m \cup {k} |-> IF x = k THEN v ELSE m[x]]
MapErase(m, k) == [x \in DOMAIN m \ {k} |-> m[x]]
EmptyMap == [x \in {} |-> NULL]

-----------------------------------------------------------------------------
(* BackupManager (BackupManager.cc) *)

\* segments.insert(value_type(segmentId, session)): a multimap keeps its
\* entries in key order, equal keys in insertion order.
SegmentMapInsert(m, segmentId, session) ==
    LET before == SelectSeq(m, LAMBDA e : e[1] <= segmentId)
        after == SelectSeq(m, LAMBDA e : e[1] > segmentId)
    IN before \o <<(<<segmentId, session>>)>> \o after

\* updateHostListFromCoordinator, BackupManager.cc:251-257.
updateHostListFromCoordinator(S) ==
    IF S.coordinator.isNull
    THEN DIE(S, "No coordinator given, replication requirements can't be met.")
    ELSE [S EXCEPT !.hosts = S.coordinator.serverList]

\* Mutant of selectLoop: the loop stops one client short.
RECURSIVE selectLoop_oneShort(_, _, _, _)
selectLoop_oneShort(S, random, i, acc) ==
    IF ~(i < S.replicas - 1)
    THEN acc
    ELSE LET numHosts == Len(S.hosts)
             index == random % numHosts
             host == S.hosts[index + 1]
             next == (random + 1) % RandomModulus
         IN IF host.server_type = BACKUP
            THEN selectLoop_oneShort(S, next, i + 1,
                                     Append(acc, host.service_locator))
            ELSE selectLoop_oneShort(S, next, i, acc)

\* The while loop of selectOpenHosts, BackupManager.cc:233-245: the sessions
\* pushed onto openHosts, starting from `random`, with i clients open so far.
RECURSIVE selectLoop(_, _, _, _)
selectLoop(S, random, i, acc) ==
    IF ~(i < S.replicas)
    THEN acc
    ELSE LET numHosts == Len(S.hosts)
             index == random % numHosts
             host == S.hosts[index + 1]
             next == (random + 1) % RandomModulus
         IN IF host.server_type = BACKUP
            THEN selectLoop(S, next, i + 1, Append(acc, host.service_locator))
            ELSE selectLoop(S, next, i, acc)

\* Mutant of selectOpenHosts: the test for clients that are still open is
\* missing, so the new clients are pushed behind them.
selectOpenHosts_noOpenCheck(S, random) ==
    IF S.replicas = 0
    THEN S
    ELSE LET S1 == IF Len(S.hosts) = 0
                   THEN updateHostListFromCoordinator(S)
                   ELSE S
             numBackupClients ==
                 Cardinality({k \in 1..Len(S1.hosts) :
                                 S1.hosts[k].server_type = BACKUP})
         IN IF S1.fatal # NoFatal
            THEN S1
            ELSE IF numBackupClients < S1.replicas
            THEN DIE(S1, "Not enough backups to meet replication requirement")
            ELSE [S1 EXCEPT !.openHosts =
                               @ \o selectLoop(S1, random, 0, <<>>)]

\* selectOpenHosts, BackupManager.cc:209-246; `random` is generateRandom().
selectOpenHosts(S, random) ==
    IF S.replicas = 0
    THEN S
    ELSE LET S1 == IF Len(S.hosts) = 0
                   THEN updateHostListFromCoordinator(S)
                   ELSE S
             numBackupClients ==
                 Cardinality({k \in 1..Len(S1.hosts) :
                                 S1.hosts[k].server_type = BACKUP})
         IN IF S1.fatal # NoFatal
            THEN S1
            ELSE IF numBackupClients < S1.replicas
            THEN DIE(S1, "Not enough backups to meet replication requirement")
            ELSE IF S1.openHosts # <<>>
            THEN DIE(S1, "Cannot select new backups when some are already open")
            ELSE [S1 EXCEPT !.openHosts = selectLoop(S1, random, 0, <<>>)]

\* The foreach of openSegment, BackupManager.cc:86-89, from client k on.
RECURSIVE openFanOut(_, _, _, _)
openFanOut(S, masterId, segmentId, k) ==
    IF k > Len(S.openHosts)
    THEN S
    ELSE openFanOut(
             [S EXCEPT
                 !.rpcs = Append(@, Rpc("openSegment", masterId, segmentId,
                                        k, S.openHosts[k], 0, 0)),
                 !.segments = SegmentMapInsert(@, segmentId, S.openHosts[k])],
             masterId, segmentId, k + 1)

\* BackupManager::openSegment, BackupManager.cc:80-90.
openSegment(S, masterId, segmentId, random) ==
    LET S1 == selectOpenHosts(S, random)
    IN IF S1.fatal # NoFatal
       THEN S1
       ELSE openFanOut(S1, masterId, segmentId, 1)

\* Mutant of writeSegment: only the first open client is written to.
writeSegment_firstOnly(S, masterId, segmentId, offset, len) ==
    [S EXCEPT !.rpcs = @ \o [k \in 1..(IF S.openHosts = <<>> THEN 0 ELSE 1) |->
                                Rpc("writeSegment", masterId, segmentId,
                                    k, S.openHosts[k], offset, len)]]

\* BackupManager::writeSegment, BackupManager.cc:189-200.
writeSegment(S, masterId, segmentId, offset, len) ==
    [S EXCEPT !.rpcs = @ \o [k \in 1..Len(S.openHosts) |->
                                Rpc("writeSegment", masterId, segmentId,
                                    k, S.openHosts[k], offset, len)]]

\* Mutant of closeSegment: openHosts.clear() is missing.
closeSegment_noClear(S, masterId, segmentId) ==
    [S EXCEPT !.rpcs = @ \o [k \in 1..Len(S.openHosts) |->
                                Rpc("closeSegment", masterId, segmentId,
                                    k, S.openHosts[k], 0, 0)]]

\* Mutant of closeSegment: the segment's sessions are dropped from `segments`
\* together with the clients.
closeSegment_forgetsSessions(S, masterId, segmentId) ==
    [S EXCEPT !.rpcs = @ \o [k \in 1..Len(S.openHosts) |->
                                Rpc("closeSegment", masterId, segmentId,
                                    k, S.openHosts[k], 0, 0)],
              !.openHosts = <<>>,
              !.segments = SelectSeq(@, LAMBDA e : e[1] # segmentId)]

\* BackupManager::closeSegment, BackupManager.cc:44-55.
closeSegment(S, masterId, segmentId) ==
    [S EXCEPT !.rpcs = @ \o [k \in 1..Len(S.openHosts) |->
                                Rpc("closeSegment", masterId, segmentId,
                                    k, S.openHosts[k], 0, 0)],
              !.openHosts = <<>>]

\* Mutant of freeSegment: segments.erase(current) is missing.
freeSegment_keepsEntries(S, masterId, segmentId) ==
    LET range == SelectSeq(S.segments, LAMBDA e : e[1] = segmentId)
    IN [S EXCEPT !.rpcs = @ \o [k \in 1..Len(range) |->
                                   Rpc("freeSegment", masterId, segmentId,
                                       k, range[k][2], 0, 0)]]

\* BackupManager::freeSegment, BackupManager.cc:58-77: the entries of
\* equal_range(segmentId) are freed in order and erased.
freeSegment(S, masterId, segmentId) ==
    LET range == SelectSeq(S.segments, LAMBDA e : e[1] = segmentId)
    IN [S EXCEPT !.rpcs = @ \o [k \in 1..Len(range) |->
                                   Rpc("freeSegment", masterId, segmentId,
                                       k, range[k][2], 0, 0)],
                 !.segments = SelectSeq(@, LAMBDA e : e[1] # segmentId)]

\* What freeSegment logs, BackupManager.cc:63-76: `count` is the number of
\* entries the loop freed.
freeSegmentLog(S, segmentId) ==
    LET count == Len(SelectSeq(S.segments, LAMBDA e : e[1] = segmentId))
    IN IF count # S.replicas
       THEN <<[level |-> "WARNING", count |-> count, replicas |-> S.replicas]>>
       ELSE <<>>

\* BackupManager::setHostList, BackupManager.cc:182-186.
setHostList(S, H) == [S EXCEPT !.hosts = H]

-----------------------------------------------------------------------------
(* Segment (Segment contract of the specification) *)

\* Segment::appendableBytes of the Segment with handle h: the largest payload
\* that still leaves room for its entry header and for the footer entry.
appendableBytes(S, h) ==
    LET freeBytes == segmentCapacity - S.segs[h].tail
        headRoom == EntryHeaderBytes + SegmentFooterBytes
    IN IF freeBytes < headRoom + EntryHeaderBytes
       THEN 0
       ELSE freeBytes - headRoom - EntryHeaderBytes

\* The entry is written at the tail and mirrored to the open replicas.
\* Returns the record after the write and the pointer to the payload.
forceAppend(S, h, length) ==
    LET seg == S.segs[h]
        S1 == [S EXCEPT !.segs[h].tail = @ + EntryHeaderBytes + length]
        S2 == IF seg.backup
              THEN writeSegment(S1, seg.logId, seg.id, seg.tail,
                                EntryHeaderBytes + length)
              ELSE S1
    IN [st |-> S2, p |-> seg.baseAddress + seg.tail + EntryHeaderBytes]

\* Segment::append: none (NULL) when the segment is closed or the entry does
\* not fit.
SegmentAppend(S, h, length) ==
    IF S.segs[h].closed \/ appendableBytes(S, h) < length
    THEN [st |-> S, p |-> NULL]
    ELSE forceAppend(S, h, length)

\* Segment::close: the footer entry is written, the replicas are closed.
SegmentClose(S, h) ==
    LET seg == S.segs[h]
        S1 == forceAppend(S, h, SegmentFooterBytes).st
        S2 == IF seg.backup THEN closeSegment(S1, seg.logId, seg.id) ELSE S1
    IN [S2 EXCEPT !.segs[h].closed = TRUE]

\* Segment::Segment(logId, segmentId, baseAddress, capacity, backup): the
\* replicas are opened, then the header entry is written.  The new object's
\* handle is Len(segs) of the result; after a DIE no object exists.
SegmentNew(S, lId, segmentId, baseAddress, backup, random) ==
    LET S1 == IF backup THEN openSegment(S, lId, segmentId, random) ELSE S
        seg == [logId |-> lId, id |-> segmentId, baseAddress |-> baseAddress,
                tail |-> 0, closed |-> FALSE, backup |-> backup,
                bytesFreed |-> 0]
        S2 == [S1 EXCEPT !.segs = Append(@, seg)]
    IN IF S1.fatal # NoFatal
       THEN S1
       ELSE forceAppend(S2, Len(S2.segs), SegmentHeaderBytes).st

-----------------------------------------------------------------------------
(* Log private methods (Log.cc) *)

\* Log::addToFreeList, Log.cc:333-337.
addToFreeList(S, p) == [S EXCEPT !.segmentFreeList = Append(@, p)]

\* Mutant of getFromFreeList: the last buffer is returned but not popped.
getFromFreeList_noPop(S) ==
    IF S.segmentFreeList = <<>>
    THEN [st |-> S, p |-> NULL]
    ELSE [st |-> S, p |-> S.segmentFreeList[Len(S.segmentFreeList)]]

\* Log::getFromFreeList, Log.cc:346-356.
getFromFreeList(S) ==
    IF S.segmentFreeList = <<>>
    THEN [st |-> S, p |-> NULL]
    ELSE [st |-> [S EXCEPT !.segmentFreeList =
                               SubSeq(@, 1, Len(S.segmentFreeList) - 1)],
          p |-> S.segmentFreeList[Len(S.segmentFreeList)]]

\* Mutant of allocateSegmentId: pre-increment instead of post-increment.
allocateSegmentId_preIncrement(S) ==
    [st |-> [S EXCEPT !.nextSegmentId = @ + 1], id |-> S.nextSegmentId + 1]

\* Log::allocateSegmentId, Log.cc:364-368.
allocateSegmentId(S) ==
    [st |-> [S EXCEPT !.nextSegmentId = @ + 1], id |-> S.nextSegmentId]

\* Log::addToActiveMaps, Log.cc:308-313.
addToActiveMaps(S, s) ==
    [S EXCEPT
        !.activeIdMap = MapPut(@, S.segs[s].id, s),
        !.activeBaseAddressMap = MapPut(@, S.segs[s].baseAddress, s)]

\* Mutant of eraseFromActiveMaps: only the id map is updated.
eraseFromActiveMaps_idOnly(S, s) ==
    [S EXCEPT !.activeIdMap = MapErase(@, S.segs[s].id)]

\* Log::eraseFromActiveMaps, Log.cc:320-325.
eraseFromActiveMaps(S, s) ==
    [S EXCEPT
        !.activeIdMap = MapErase(@, S.segs[s].id),
        !.activeBaseAddressMap = MapErase(@, S.segs[s].baseAddress)]

\* Mutant of getSegmentBaseAddress: the mask segmentCapacity - 1 is used as
\* the modulus.
getSegmentBaseAddress_maskAsModulus(p) == p - (p % (segmentCapacity - 1))

\* Log::getSegmentBaseAddress, Log.cc:375-380.
getSegmentBaseAddress(p) == p - (p % segmentCapacity)

\* Log::addSegmentMemory, Log.cc:292-301: the scratch Segment has no backup.
addSegmentMemory(S, p) ==
    LET S1 == addToFreeList(S, p)
        scratch == SegmentNew([S1 EXCEPT !.segs = <<>>], 0, 0, p, FALSE, 0)
    IN IF S1.maximumAppendableBytes = 0
       THEN [S1 EXCEPT !.maximumAppendableBytes = appendableBytes(scratch, 1)]
       ELSE S1

\* xmemalign(segmentCapacity, segmentCapacity), Log.cc:69: the i-th buffer,
\* aligned to segmentCapacity (address 0 is NULL).
xmemalign(i) == (i + 1) * segmentCapacity

\* The constructor's loop, Log.cc:68-71, from buffer i on.
RECURSIVE constructorLoop(_, _, _)
constructorLoop(S, i, numSegments) ==
    IF ~(i < numSegments)
    THEN S
    ELSE constructorLoop(addSegmentMemory(S, xmemalign(i)), i + 1, numSegments)

\* Log::Log, Log.cc:45-72, and BackupManager::BackupManager,
\* BackupManager.cc:27-34.
Constructed(capacity, coord, reps) ==
    constructorLoop(
        [logCapacity |-> capacity,
         segmentFreeList |-> <<>>,
         nextSegmentId |-> 0,
         maximumAppendableBytes |-> 0,
         head |-> NULL,
         activeIdMap |-> EmptyMap,
         activeBaseAddressMap |-> EmptyMap,
         segs |-> <<>>,
         coordinator |-> coord,
         hosts |-> <<>>,
         openHosts |-> <<>>,
         replicas |-> reps,
         segments |-> <<>>,
         rpcs |-> <<>>,
         fatal |-> NoFatal],
        0, capacity \div segmentCapacity)

-----------------------------------------------------------------------------
(* LogCleaner (cleaner contract of the specification) *)

\* The segments the cleaner may evict: active, closed, and so not the head.
Victims(S) ==
    {S.activeIdMap[id] : id \in DOMAIN S.activeIdMap} \ {S.head}

\* LogCleaner::clean(1) evicting `victim` (NULL: it evicts nothing): the
\* segment leaves both active maps, its replicas are freed, its buffer goes
\* back to the free list.
clean(S, victim) ==
    IF victim = NULL
    THEN S
    ELSE LET seg == S.segs[victim]
             S1 == eraseFromActiveMaps(S, victim)
             S2 == IF seg.backup THEN freeSegment(S1, seg.logId, seg.id) ELSE S1
         IN addToFreeList(S2, seg.baseAddress)

-----------------------------------------------------------------------------
(* Log public methods (Log.cc) *)

\* Log::isSegmentLive, Log.cc:111-115.
isSegmentLive(S, segmentId) == segmentId \in DOMAIN S.activeIdMap

\* Log::getSegmentId, Log.cc:128-138.
getSegmentId(S, p) ==
    LET base == getSegmentBaseAddress(p)
    IN IF base \notin DOMAIN S.activeBaseAddressMap
       THEN [raised |-> TRUE, id |-> 0]
       ELSE [raised |-> FALSE, id |-> S.segs[S.activeBaseAddressMap[base]].id]

\* Mutant of closeHead: the head reference is cleared without head->close().
closeHead_noClose(S) == [S EXCEPT !.head = NULL]

\* Mutant of closeHead: head->close() is called, the reference is kept.
closeHead_keepHead(S) ==
    IF S.head # NULL THEN SegmentClose(S, S.head) ELSE S

\* Log::append, Log.cc:176-179: a head that refused the entry is closed and
\* the head reference is cleared.
closeHead(S) ==
    IF S.head # NULL
    THEN [SegmentClose(S, S.head) EXCEPT !.head = NULL]
    ELSE S

\* The do-while loop of Log::append, Log.cc:171-191.  `random` is what
\* generateRandom() returns when a head is opened, `victim` what
\* cleaner->clean(1) evicts after that.  Returns the fields, the pointer and
\* the number of passes through the loop body.
RECURSIVE appendLoop(_, _, _, _)
appendLoop(S, length, random, victim) ==
    LET tried == IF S.head # NULL
                 THEN SegmentAppend(S, S.head, length)
                 ELSE [st |-> S, p |-> NULL]
    IN IF tried.p # NULL
       THEN [st |-> tried.st, p |-> tried.p, iters |-> 1]
       ELSE LET S1 == closeHead(tried.st)
                popped == getFromFreeList(S1)
                alloc == allocateSegmentId(popped.st)
                S2 == SegmentNew(alloc.st, logId, alloc.id, popped.p, TRUE,
                                 random)
                s == Len(S2.segs)
                S3 == addToActiveMaps([S2 EXCEPT !.head = s], s)
                S4 == clean(S3, IF victim \in Victims(S3) THEN victim ELSE NULL)
                again == appendLoop(S4, length, random, NULL)
            IN IF popped.p = NULL
               THEN [st |-> popped.st, p |-> NULL, iters |-> 1]
               ELSE IF S2.fatal # NoFatal
               THEN [st |-> S2, p |-> NULL, iters |-> 1]
               ELSE [again EXCEPT !.iters = @ + 1]

\* Mutant of append: the length check is missing.
append_noLengthCheck(S, length, random, victim) ==
    LET r == appendLoop(S, length, random, victim)
    IN [st |-> r.st, p |-> r.p, raised |-> FALSE, iters |-> r.iters]

\* Mutant of append: the length check is off by one.
append_offByOne(S, length, random, victim) ==
    IF length >= S.maximumAppendableBytes
    THEN [st |-> S, p |-> NULL, raised |-> TRUE, iters |-> 0]
    ELSE LET r == appendLoop(S, length, random, victim)
         IN [st |-> r.st, p |-> r.p, raised |-> FALSE, iters |-> r.iters]

\* Log::append, Log.cc:158-194.
append(S, length, random, victim) ==
    IF length > S.maximumAppendableBytes
    THEN [st |-> S, p |-> NULL, raised |-> TRUE, iters |-> 0]
    ELSE LET r == appendLoop(S, length, random, victim)
         IN [st |-> r.st, p |-> r.p, raised |-> FALSE, iters |-> r.iters]

-----------------------------------------------------------------------------
(* A Log driving a BackupManager: specification Spec *)

\* A call and how it ended.
Call(op, length, segmentId, result, p) ==
    [op |-> op, length |-> length, segmentId |-> segmentId,
     result |-> result, p |-> p]

NoOp == Call("none", 0, 0, "none", NULL)

Start(S) ==
    /\ logCapacity = S.logCapacity
    /\ segmentFreeList = S.segmentFreeList
    /\ nextSegmentId = S.nextSegmentId
    /\ maximumAppendableBytes = S.maximumAppendableBytes
    /\ head = S.head
    /\ activeIdMap = S.activeIdMap
    /\ activeBaseAddressMap = S.activeBaseAddressMap
    /\ segs = S.segs
    /\ coordinator = S.coordinator
    /\ hosts = S.hosts
    /\ openHosts = S.openHosts
    /\ replicas = S.replicas
    /\ segments = S.segments
    /\ rpcs = S.rpcs
    /\ fatal = S.fatal
    /\ lastOp = NoOp
    /\ ptrs = {}
    /\ lastTerminal = "none"
    /\ calls = 0
    /\ callbackMap = EmptyMap
    /\ iterations = 0
    /\ trace = <<>>

\* What the BackupManager is given: a coordinator (or none) and, through
\* setHostList, a host list (or none).  With replicas = 0 neither is read.
BackupSetups(reps) ==
    IF reps = 0
    THEN {[coord |-> NoCoordinator, list |-> <<>>]}
    ELSE {[coord |-> NoCoordinator, list |-> H] : H \in HostLists}
         \cup {[coord |-> [isNull |-> FALSE, serverList |-> H], list |-> <<>>] :
                  H \in {L \in HostLists : Len(L) <= 1}}

Init ==
    /\ backups = <<>>
    /\ \E n \in 1..MaxBuffers, reps \in 0..MaxReplicas :
          \E setup \in BackupSetups(reps) :
             Start(setHostList(Constructed(n * segmentCapacity, setup.coord,
                                           reps),
                               setup.list))

\* The lengths appended: a small entry, the largest entry a segment takes, and
\* one byte more.
AppendLengths == {1, maximumAppendableBytes, maximumAppendableBytes + 1}

\* What generateRandom() returns to a Log's appends: the smallest value, and
\* the largest, whose increment wraps to 0.  (SpecBM draws every value.)
RandomDraws == {0, RandomModulus - 1}

\* Whether Log::append(length) gets as far as constructing a new head, and so
\* draws generateRandom() and runs cleaner->clean(1).
Rolls(length) ==
    /\ length <= maximumAppendableBytes
    /\ head = NULL \/ SegmentAppend(Cur, head, length).p = NULL
    /\ segmentFreeList # <<>>

\* A call of Log::append(type, buffer, length).
LogAppend ==
    /\ UNCHANGED backups
    /\ fatal = NoFatal
    /\ \E length \in AppendLengths :
       \E random \in IF Rolls(length) /\ replicas > 0
                     THEN RandomDraws ELSE {0},
          victim \in IF Rolls(length)
                     THEN {NULL} \cup Victims(Cur) \cup {head} ELSE {NULL} :
          \E r \in {append(Cur, length, random, victim)} :
             /\ r.st.nextSegmentId <= MaxSegments
             /\ Install(r.st)
             /\ lastOp' = Call("append", length, 0,
                                IF r.raised THEN "raised"
                                ELSE IF r.st.fatal # NoFatal THEN "fatal"
                                ELSE IF r.p = NULL THEN "none"
                                ELSE "pointer",
                                r.p)
             /\ ptrs' = IF r.p # NULL THEN ptrs \cup {<<r.p, r.st.head>>}
                        ELSE ptrs
             /\ iterations' = r.iters
             /\ trace' = <<>>
             /\ UNCHANGED <<lastTerminal, calls, callbackMap>>

\* The cleaner evicting one segment outside of append.
CleanerClean ==
    /\ UNCHANGED backups
    /\ fatal = NoFatal
    /\ \E victim \in Victims(Cur) :
          /\ Install(clean(Cur, victim))
          /\ lastOp' = Call("clean", 0, segs[victim].id, "done", NULL)
          /\ iterations' = 0
          /\ trace' = <<>>
          /\ UNCHANGED <<ptrs, lastTerminal, calls, callbackMap>>

Next == LogAppend \/ CleanerClean

Spec == Init /\ [][Next]_vars

-----------------------------------------------------------------------------
(* A BackupManager called directly: specification SpecBM *)

\* Segment ids passed to the BackupManager.
SegmentIds == {0, 1}

Outcome(S) == IF S.fatal # NoFatal THEN "fatal" ELSE "done"

InitBM ==
    /\ backups = <<>>
    /\ \E reps \in 0..MaxReplicas :
          \E coord \in {NoCoordinator, [isNull |-> FALSE, serverList |->
                                           <<Host("b1", BACKUP)>>]} :
              Start(Constructed(segmentCapacity, coord, reps))

\* A call of BackupManager::setHostList(hosts).
BMSetHostList ==
    /\ UNCHANGED backups
    /\ fatal = NoFatal /\ calls < MaxCalls
    /\ \E H \in HostLists :
          /\ Install(setHostList(Cur, H))
          /\ lastOp' = Call("setHostList", 0, 0, "done", NULL)
    /\ calls' = calls + 1
    /\ trace' = <<>>
    /\ UNCHANGED <<ptrs, lastTerminal, callbackMap, iterations>>

\* A call of BackupManager::openSegment(masterId, segmentId).
BMOpenSegment ==
    /\ UNCHANGED backups
    /\ fatal = NoFatal /\ calls < MaxCalls
    /\ \E segmentId \in SegmentIds, random \in 0..(RandomModulus - 1) :
          LET S == openSegment(Cur, logId, segmentId, random)
          IN /\ Install(S)
             /\ lastOp' = Call("openSegment", 0, segmentId, Outcome(S), NULL)
             /\ lastTerminal' = IF S.fatal = NoFatal THEN "open"
                                ELSE lastTerminal
    /\ calls' = calls + 1
    /\ trace' = <<>>
    /\ UNCHANGED <<ptrs, callbackMap, iterations>>

\* A call of BackupManager::writeSegment(masterId, segmentId, offset, data, len).
BMWriteSegment ==
    /\ UNCHANGED backups
    /\ fatal = NoFatal /\ calls < MaxCalls
    /\ \E segmentId \in SegmentIds :
          /\ Install(writeSegment(Cur, logId, segmentId, 0, 1))
          /\ lastOp' = Call("writeSegment", 1, segmentId, "done", NULL)
    /\ calls' = calls + 1
    /\ trace' = <<>>
    /\ UNCHANGED <<ptrs, lastTerminal, callbackMap, iterations>>

\* A call of BackupManager::closeSegment(masterId, segmentId).
BMCloseSegment ==
    /\ UNCHANGED backups
    /\ fatal = NoFatal /\ calls < MaxCalls
    /\ \E segmentId \in SegmentIds :
          /\ Install(closeSegment(Cur, logId, segmentId))
          /\ lastOp' = Call("closeSegment", 0, segmentId, "done", NULL)
    /\ lastTerminal' = "close"
    /\ calls' = calls + 1
    /\ trace' = <<>>
    /\ UNCHANGED <<ptrs, callbackMap, iterations>>

\* A call of BackupManager::freeSegment(masterId, segmentId).
BMFreeSegment ==
    /\ UNCHANGED backups
    /\ fatal = NoFatal /\ calls < MaxCalls
    /\ \E segmentId \in SegmentIds :
          /\ Install(freeSegment(Cur, logId, segmentId))
          /\ lastOp' = Call("freeSegment", 0, segmentId, "done", NULL)
          /\ trace' = freeSegmentLog(Cur, segmentId)
    /\ calls' = calls + 1
    /\ UNCHANGED <<ptrs, lastTerminal, callbackMap, iterations>>

NextBM ==
    \/ BMSetHostList
    \/ BMOpenSegment
    \/ BMWriteSegment
    \/ BMCloseSegment
    \/ BMFreeSegment

SpecBM == InitBM /\ [][NextBM]_vars

-----------------------------------------------------------------------------
(* Claims about the Log, checked under Spec *)

Running == fatal = NoFatal

\* The buffers added to the pool by the constructor.
Pool == {xmemalign(i) : i \in 0..((logCapacity \div segmentCapacity) - 1)}

OnFreeList(b) == \E i \in 1..Len(segmentFreeList) : segmentFreeList[i] = b

\* The entries of activeBaseAddressMap whose segment has base b.
ActiveWithBase(b) ==
    {k \in DOMAIN activeBaseAddressMap :
        segs[activeBaseAddressMap[k]].baseAddress = b}

\* The Segment objects reachable through each active map.
ById == {activeIdMap[k] : k \in DOMAIN activeIdMap}
ByBase == {activeBaseAddressMap[k] : k \in DOMAIN activeBaseAddressMap}

\* C1: buffer conservation.  While the process runs, every buffer of the pool
\* is on the free list or the base of exactly one segment of
\* activeBaseAddressMap, never both and never neither, and the free list and
\* the active segments together number logCapacity / segmentCapacity.
C1_BufferConservation ==
    Running =>
        /\ \A b \in Pool :
              \/ OnFreeList(b) /\ ActiveWithBase(b) = {}
              \/ ~OnFreeList(b) /\ Cardinality(ActiveWithBase(b)) = 1
        /\ Len(segmentFreeList) + Cardinality(DOMAIN activeBaseAddressMap)
              = logCapacity \div segmentCapacity

\* A buffer was taken, evicted and taken again: one buffer is free, one is in
\* use by the third segment.
C1_Witness ==
    /\ Running
    /\ nextSegmentId = 3
    /\ Len(segmentFreeList) = 1
    /\ Cardinality(DOMAIN activeBaseAddressMap) = 1
    /\ head # NULL

\* C2: segment ids are 0, 1, 2, ... in creation order, and every id handed
\* out belongs to a created segment: an append that returns none for lack of
\* a buffer consumes no id.
C2_SegmentIdsSequential ==
    Running =>
        /\ \A s \in 1..Len(segs) : segs[s].id = s - 1
        /\ nextSegmentId = Len(segs)

\* The log ran full after three segments were created.
C2_Witness ==
    /\ Len(segs) = 3
    /\ lastOp.op = "append"
    /\ lastOp.result = "none"

\* C3: activeIdMap and activeBaseAddressMap hold the same segments, each
\* under its own id and its own base address, and no two entries of a map
\* are the same segment.
C3_ActiveMapsBijective ==
    /\ ById = ByBase
    /\ \A k \in DOMAIN activeIdMap : segs[activeIdMap[k]].id = k
    /\ \A k \in DOMAIN activeBaseAddressMap :
          segs[activeBaseAddressMap[k]].baseAddress = k
    /\ Cardinality(ById) = Cardinality(DOMAIN activeIdMap)
    /\ Cardinality(ByBase) = Cardinality(DOMAIN activeBaseAddressMap)

\* Two segments are active after a third one was evicted.
C3_Witness ==
    /\ Cardinality(DOMAIN activeIdMap) = 2
    /\ Len(segs) = 3

\* The state half of the head discipline: an un-closed active segment is the
\* head, and the head is active and un-closed.
HeadIsTheOnlyOpenSegment ==
    /\ \A s \in ById : ~segs[s].closed => s = head
    /\ head # NULL => head \in ById /\ head \in ByBase /\ ~segs[head].closed

\* The step half: a closed segment is not written again and is not the head
\* of the next state.
ClosedIsFinal ==
    \A s \in 1..Len(segs) :
        segs[s].closed => segs'[s] = segs[s] /\ head' # s

\* C4: head discipline.  At most one active segment is un-closed and it is
\* the head; the head is in the active maps; a closed segment never becomes
\* the head again and receives no further append.
C4_HeadDiscipline == [](HeadIsTheOnlyOpenSegment) /\ [][ClosedIsFinal]_vars

\* A closed segment and the head that replaced it are both active.
C4_Witness ==
    /\ head # NULL
    /\ \E s \in ById : segs[s].closed
    /\ lastOp.result = "pointer"

\* The BACKUP entries of the host list.
NumBackups == Cardinality({k \in 1..Len(hosts) : hosts[k].server_type = BACKUP})

\* C5: with replicas >= 1 and a host list of at least `replicas` BACKUPs,
\* after every Log::append openHosts holds exactly `replicas` clients while a
\* head exists and none when there is no head, and the process has not
\* died; "Cannot select new backups when some are already open" is reached
\* by no sequence of appends.
C5_OpenHostsFollowHead ==
    /\ fatal # "Cannot select new backups when some are already open"
    /\ (replicas >= 1 /\ NumBackups >= replicas) =>
          /\ Running
          /\ head # NULL => Len(openHosts) = replicas
          /\ head = NULL => openHosts = <<>>

\* The second head of a Log with two replicas is open on two backups.
C5_Witness ==
    /\ replicas = 2
    /\ head # NULL
    /\ Len(openHosts) = 2
    /\ nextSegmentId >= 2

-----------------------------------------------------------------------------
(* Claims about the BackupManager called directly, checked under SpecBM *)

\* C6 as stated: for any replication factor, replicas = 0 included, openHosts
\* is empty iff the most recent openSegment / closeSegment call was a
\* closeSegment or there was none.
C6_AsStated ==
    Running => (openHosts = <<>> <=> lastTerminal \in {"none", "close"})

\* C6: for replicas >= 1, after any sequence of non-fatal openSegment and
\* closeSegment calls openHosts is empty iff the most recent of them was a
\* closeSegment or there was none; for replicas = 0 openHosts is always empty.
C6_OpenHostsEmptyIffClosed ==
    Running =>
        /\ replicas >= 1 =>
              (openHosts = <<>> <=> lastTerminal \in {"none", "close"})
        /\ replicas = 0 => openHosts = <<>>

\* A segment is open on two backups after an earlier one was closed.
C6_Witness ==
    /\ Running
    /\ lastTerminal = "open"
    /\ Len(openHosts) = 2
    /\ \E i \in 1..Len(rpcs) : rpcs[i].op = "closeSegment"

-----------------------------------------------------------------------------
(* Claims about the Log and its backups, checked under Spec *)

\* The remote calls made for a segment through the k-th BackupClient of its
\* fan-out, and those that reached one session.
RpcsOfClient(segmentId, k) ==
    SelectSeq(rpcs, LAMBDA r : r.segmentId = segmentId /\ r.client = k)

Rank(op) ==
    CASE op = "openSegment" -> 1
      [] op = "writeSegment" -> 2
      [] op = "closeSegment" -> 3
      [] op = "freeSegment" -> 4

\* One openSegment, then writes laid end to end from offset 0, then at most
\* one closeSegment, then at most one freeSegment, all on one session.
WellOrdered(q) ==
    /\ q # <<>>
    /\ q[1].op = "openSegment"
    /\ \A i \in 2..Len(q) :
          /\ q[i].session = q[1].session
          /\ q[i].op # "openSegment"
          /\ q[i].op = "writeSegment" =>
                /\ q[i - 1].op \in {"openSegment", "writeSegment"}
                /\ q[i].offset = q[i - 1].offset + q[i - 1].len
          /\ q[i].op = "closeSegment" =>
                q[i - 1].op \in {"openSegment", "writeSegment"}
          /\ q[i].op = "freeSegment" => q[i - 1].op = "closeSegment"

\* The end of the last write of q (0 when nothing was written).
WrittenUpTo(q) ==
    LET w == SelectSeq(q, LAMBDA r : r.op = "writeSegment")
    IN IF w = <<>> THEN 0 ELSE w[Len(w)].offset + w[Len(w)].len

HeadRefuses(length) ==
    head = NULL \/ SegmentAppend(Cur, head, length).p = NULL

\* The step half of C8, for a step that is an append that returned.
LogFullStep ==
    (lastOp'.op = "append" /\ lastOp'.result \in {"none", "pointer"}) =>
        /\ lastOp'.result = "none" <=>
              (HeadRefuses(lastOp'.length) /\ segmentFreeList = <<>>)
        /\ lastOp'.result = "none" =>
              /\ nextSegmentId' = nextSegmentId
              /\ activeIdMap' = activeIdMap
              /\ activeBaseAddressMap' = activeBaseAddressMap
              /\ segmentFreeList' = segmentFreeList
              /\ head' = NULL
              /\ head # NULL => segs'[head].closed

\* The state half: with no head and no free buffer every append of a
\* permitted length returns none and changes nothing.
FullStaysFull ==
    (Running /\ head = NULL /\ segmentFreeList = <<>>) =>
        \A length \in 0..maximumAppendableBytes :
            LET r == append(Cur, length, 0, NULL)
            IN r.p = NULL /\ ~r.raised /\ r.st = Cur

\* C8: log-full.  An append of a permitted length returns none exactly when
\* the head is absent or refuses the entry and the free list is empty; then
\* no id is allocated, the maps and the free list are unchanged, the former
\* head is closed and the head reference is null, and appends keep returning
\* none while the free list stays empty.
C8_LogFull == [](FullStaysFull) /\ [][LogFullStep]_vars

\* The log ran full on an append that had to close a head.
C8_Witness ==
    /\ lastOp.op = "append"
    /\ lastOp.result = "none"
    /\ head = NULL
    /\ segmentFreeList = <<>>
    /\ Cardinality(ById) = 2

\* What an append leaves alone when it raises.
Untouched ==
    UNCHANGED <<logCapacity, segmentFreeList, nextSegmentId,
                maximumAppendableBytes, head, activeIdMap,
                activeBaseAddressMap, segs, coordinator, hosts, openHosts,
                replicas, segments, rpcs, fatal, ptrs>>

\* The step half of C9.
SizeBoundaryStep ==
    lastOp'.op = "append" =>
        /\ lastOp'.length > maximumAppendableBytes <=> lastOp'.result = "raised"
        /\ lastOp'.result = "raised" => Untouched
        /\ (/\ lastOp'.length = maximumAppendableBytes
            /\ lastOp'.result # "fatal"
            /\ \/ segmentFreeList # <<>>
               \/ head # NULL /\ appendableBytes(Cur, head) >= lastOp'.length)
              => lastOp'.result = "pointer" /\ lastOp'.p # NULL

\* The state half: in every state one byte more than maximumAppendableBytes
\* raises and changes nothing, and maximumAppendableBytes is what an empty
\* segment takes.
OneMoreRaises ==
    LET r == append(Cur, maximumAppendableBytes + 1, 0, NULL)
    IN /\ r.raised /\ r.st = Cur
       /\ maximumAppendableBytes
             = segmentCapacity - (EntryHeaderBytes + SegmentHeaderBytes)
                  - (EntryHeaderBytes + SegmentFooterBytes) - EntryHeaderBytes

\* C9: append size boundary.  An append of exactly maximumAppendableBytes
\* that returns yields a pointer whenever a free buffer or a sufficiently
\* empty head is available; an append of more raises and touches no state.
C9_AppendSizeBoundary == [](OneMoreRaises) /\ [][SizeBoundaryStep]_vars

\* An entry of exactly maximumAppendableBytes went into a head created for
\* it after an earlier head was closed.
C9_Witness ==
    /\ lastOp.op = "append"
    /\ lastOp.length = maximumAppendableBytes
    /\ lastOp.result = "pointer"
    /\ Len(segs) >= 2

\* C10: for every pointer p returned by append whose segment is still
\* active, getSegmentBaseAddress(p) is that segment's base address,
\* getSegmentId(p) is its id, and that id is live.
C10_PointerToSegment ==
    \A e \in ptrs :
        e[2] \in ById =>
            /\ getSegmentBaseAddress(e[1]) = segs[e[2]].baseAddress
            /\ getSegmentId(Cur, e[1]) = [raised |-> FALSE, id |-> segs[e[2]].id]
            /\ isSegmentLive(Cur, segs[e[2]].id)

\* Pointers into two active segments, one of them in a buffer an evicted
\* segment used before.
C10_Witness ==
    \E e, f, g \in ptrs :
        /\ e[2] \in ById /\ f[2] \in ById /\ e[2] # f[2]
        /\ g[2] \notin ById
        /\ segs[g[2]].baseAddress = segs[e[2]].baseAddress

-----------------------------------------------------------------------------
(* More public methods of the Log (Log.cc), and a Log without replication: *)
(* specifications SpecLog and SpecEach                                     *)

\* Successful calls of Log::free in one run of SpecLog.
MaxFrees == 1

\* Segment::free (Segment contract): bumps the segment's freed-bytes counter;
\* the counter here counts the entries freed.
SegmentFree(S, h, p) == [S EXCEPT !.segs[h].bytesFreed = @ + 1]

\* Mutant of free: the find() check is missing, so operator[] inserts a null
\* entry for a base it does not hold.
free_noCheck(S, p) ==
    LET base == getSegmentBaseAddress(p)
    IN IF base \notin DOMAIN S.activeBaseAddressMap
       THEN [st |-> [S EXCEPT !.activeBaseAddressMap = MapPut(@, base, NULL)],
             raised |-> FALSE]
       ELSE [st |-> SegmentFree(S, S.activeBaseAddressMap[base], p),
             raised |-> FALSE]

\* Log::free, Log.cc:204-214.
free(S, p) ==
    LET base == getSegmentBaseAddress(p)
    IN IF base \notin DOMAIN S.activeBaseAddressMap
       THEN [st |-> S, raised |-> TRUE]
       ELSE [st |-> SegmentFree(S, S.activeBaseAddressMap[base], p),
             raised |-> FALSE]

\* A Log whose BackupManager keeps no replicas.
InitLog ==
    /\ backups = <<>>
    /\ \E n \in 1..MaxBuffers :
          Start(Constructed(n * segmentCapacity, NoCoordinator, 0))

\* Pointers a caller may hold: those append returned, also into segments
\* evicted since, and one into every buffer of the pool, used or not.
Pointers == {e[1] : e \in ptrs} \cup {b + EntryHeaderBytes : b \in
                {xmemalign(i) : i \in 0..((logCapacity \div segmentCapacity) - 1)}}

\* Entries freed so far in the segments up to handle h.
RECURSIVE FreedSoFar(_, _)
FreedSoFar(S, h) ==
    IF h = 0 THEN 0 ELSE S.segs[h].bytesFreed + FreedSoFar(S, h - 1)

\* A call of Log::free(p).
LogFree ==
    /\ UNCHANGED backups
    /\ fatal = NoFatal
    /\ \E p \in Pointers :
       \E r \in {free(Cur, p)} :
          /\ r.raised \/ FreedSoFar(Cur, Len(segs)) < MaxFrees
          /\ Install(r.st)
          /\ lastOp' = Call("free", 0, 0,
                            IF r.raised THEN "raised" ELSE "done", p)
          /\ iterations' = 0
          /\ trace' = <<>>
          /\ UNCHANGED <<ptrs, lastTerminal, calls, callbackMap>>

\* A call of Log::getSegmentId(p).
LogGetSegmentId ==
    /\ UNCHANGED backups
    /\ fatal = NoFatal
    /\ \E p \in Pointers :
       \E r \in {getSegmentId(Cur, p)} :
          /\ lastOp' = Call("getSegmentId", 0, r.id,
                            IF r.raised THEN "raised" ELSE "done", p)
          /\ iterations' = 0
          /\ trace' = <<>>
          /\ UNCHANGED <<logCapacity, segmentFreeList, nextSegmentId,
                         maximumAppendableBytes, head, activeIdMap,
                         activeBaseAddressMap, segs, coordinator, hosts,
                         openHosts, replicas, segments, rpcs, fatal, ptrs,
                         lastTerminal, calls, callbackMap>>

\* Mutant of forEachLoop: the limit test is off by one.
RECURSIVE forEachLoop_offByOne(_, _, _, _)
forEachLoop_offByOne(S, rest, i, limit) ==
    IF rest # {} /\ i <= limit
    THEN LET it == CHOOSE k \in rest : \A j \in rest : k <= j
         IN <<S.activeIdMap[it]>>
               \o forEachLoop_offByOne(S, rest \ {it}, i + 1, limit)
    ELSE <<>>

\* The while loop of forEachSegment, Log.cc:264-267: the Segments passed to
\* cb, in order.  `rest` holds the keys from the iterator `it` to end(); a
\* std::map iterates in ascending key order.
RECURSIVE forEachLoop(_, _, _, _)
forEachLoop(S, rest, i, limit) ==
    IF rest # {} /\ i < limit
    THEN LET it == CHOOSE k \in rest : \A j \in rest : k <= j
         IN <<S.activeIdMap[it]>> \o forEachLoop(S, rest \ {it}, i + 1, limit)
    ELSE <<>>

\* Log::forEachSegment, Log.cc:258-268 (a const method).
forEachSegment(S, limit) ==
    [st |-> S, cb |-> forEachLoop(S, DOMAIN S.activeIdMap, 0, limit)]

\* The limits passed to forEachSegment: none, fewer than, as many as and more
\* than the active segments there can be.
Limits == 0..(MaxBuffers + 1)

\* A call of Log::forEachSegment(cb, limit, cookie).
LogForEachSegment ==
    /\ UNCHANGED backups
    /\ fatal = NoFatal
    /\ \E limit \in Limits :
       \E r \in {forEachSegment(Cur, limit)} :
          /\ Install(r.st)
          /\ lastOp' = Call("forEachSegment", limit, 0, "done", NULL)
          /\ trace' = r.cb
          /\ iterations' = 0
          /\ UNCHANGED <<ptrs, lastTerminal, calls, callbackMap>>

\* A Log whose caller frees and looks up pointers.
NextLog ==
    \/ LogAppend
    \/ CleanerClean
    \/ LogFree
    \/ LogGetSegmentId

SpecLog == InitLog /\ [][NextLog]_vars

\* A Log whose caller walks the active segments.
NextEach ==
    \/ LogAppend
    \/ CleanerClean
    \/ LogForEachSegment

SpecEach == InitLog /\ [][NextEach]_vars

-----------------------------------------------------------------------------
(* Claims about the Log's other methods, checked under SpecLog *)

\* Whether p, rounded down to a multiple of segmentCapacity, is the base of
\* no active segment.
NoActiveBase(p) ==
    \A k \in DOMAIN activeIdMap :
        segs[activeIdMap[k]].baseAddress # p - (p % segmentCapacity)

\* The Log's fields and the Segment objects.
LogState ==
    <<logCapacity, segmentFreeList, nextSegmentId, maximumAppendableBytes,
      head, activeIdMap, activeBaseAddressMap, segs, callbackMap>>

\* The step half of C11: a free or getSegmentId of such a pointer raises and
\* changes nothing.
InvalidPointerStep ==
    (lastOp'.op \in {"free", "getSegmentId"} /\ NoActiveBase(lastOp'.p)) =>
        /\ lastOp'.result = "raised"
        /\ UNCHANGED LogState

\* The state half: in every state, both methods raise for every pointer held
\* whose base is not an active segment's, and free leaves the fields alone.
InvalidPointersRaise ==
    \A p \in Pointers :
        NoActiveBase(p) =>
            /\ getSegmentId(Cur, p).raised
            /\ free(Cur, p) = [st |-> Cur, raised |-> TRUE]

\* C11: Log::free(p) and Log::getSegmentId(p) raise, and change no Log or
\* segment state, whenever p rounded down to a multiple of segmentCapacity is
\* not the base of an active segment, be it a pointer into a buffer on the
\* free list or into a segment that left the active maps.
C11_InvalidPointerRaises ==
    [](InvalidPointersRaise) /\ [][InvalidPointerStep]_vars

\* free raised for a pointer append once returned: its segment was evicted
\* and its buffer is on the free list.
C11_Witness ==
    /\ lastOp.op = "free"
    /\ lastOp.result = "raised"
    /\ \E e \in ptrs :
          /\ e[1] = lastOp.p
          /\ e[2] \notin ById
          /\ OnFreeList(segs[e[2]].baseAddress)

-----------------------------------------------------------------------------
(* The type registry of the Log: specification SpecReg *)

\* new LogTypeCallback(type, evictionCB, evictionArg).
LogTypeCallback(type, evictionCB, evictionArg) ==
    [type |-> type, evictionCB |-> evictionCB, evictionArg |-> evictionArg]

\* Mutant of registerType: the find() check is missing, so the assignment
\* replaces the record of a registered type.
registerType_overwrite(cbMap, type, evictionCB, evictionArg) ==
    [map |-> MapPut(cbMap, type, LogTypeCallback(type, evictionCB, evictionArg)),
     raised |-> FALSE]

\* Log::registerType, Log.cc:237-245, on callbackMap.
registerType(cbMap, type, evictionCB, evictionArg) ==
    IF type \in DOMAIN cbMap
    THEN [map |-> cbMap, raised |-> TRUE]
    ELSE [map |-> MapPut(cbMap, type,
                         LogTypeCallback(type, evictionCB, evictionArg)),
          raised |-> FALSE]

\* Entry types, eviction callbacks and their arguments.
LogEntryTypes == {"OBJECT", "TOMBSTONE", "SEGHEADER"}
EvictionCallbacks == {"cbA", "cbB"}
EvictionArgs == {"argA", "argB"}

\* A call of registerType and how it ended.
RegisterCall(type, evictionCB, evictionArg, result) ==
    [op |-> "registerType", length |-> 0, segmentId |-> 0, result |-> result,
     p |-> NULL, type |-> type, evictionCB |-> evictionCB,
     evictionArg |-> evictionArg]

\* A call of Log::registerType(type, evictionCB, evictionArg).
LogRegisterType ==
    /\ UNCHANGED backups
    /\ fatal = NoFatal
    /\ \E type \in LogEntryTypes, evictionCB \in EvictionCallbacks,
          evictionArg \in EvictionArgs :
       \E r \in {registerType(callbackMap, type, evictionCB, evictionArg)} :
          /\ callbackMap' = r.map
          /\ lastOp' = RegisterCall(type, evictionCB, evictionArg,
                                    IF r.raised THEN "raised" ELSE "done")
          /\ iterations' = 0
          /\ trace' = <<>>
          /\ UNCHANGED <<logCapacity, segmentFreeList, nextSegmentId,
                         maximumAppendableBytes, head, activeIdMap,
                         activeBaseAddressMap, segs, coordinator, hosts,
                         openHosts, replicas, segments, rpcs, fatal, ptrs,
                         lastTerminal, calls>>

NextReg == LogRegisterType

SpecReg == InitLog /\ [][NextReg]_vars

\* C12: registerType is one-shot per type.  A call for an unregistered type
\* stores its (callback, cookie) pair; a call for a registered type raises
\* and leaves the registry as it was; either way the records of the other
\* types, and of this type if it had one, are the same afterwards.
C12_RegisterTypeOneShot ==
    [][lastOp'.op = "registerType" =>
          /\ lastOp'.result = "raised" <=> lastOp'.type \in DOMAIN callbackMap
          /\ lastOp'.result = "raised" => callbackMap' = callbackMap
          /\ lastOp'.result = "done" =>
                /\ DOMAIN callbackMap' = DOMAIN callbackMap \cup {lastOp'.type}
                /\ callbackMap'[lastOp'.type].evictionCB = lastOp'.evictionCB
                /\ callbackMap'[lastOp'.type].evictionArg = lastOp'.evictionArg
          /\ \A t \in DOMAIN callbackMap :
                t \in DOMAIN callbackMap' /\ callbackMap'[t] = callbackMap[t]
    ]_vars

\* A second registration of a type, with another callback and cookie, raised
\* while another type is registered too.
C12_Witness ==
    /\ lastOp.op = "registerType"
    /\ lastOp.result = "raised"
    /\ callbackMap[lastOp.type].evictionCB # lastOp.evictionCB
    /\ callbackMap[lastOp.type].evictionArg # lastOp.evictionArg
    /\ Cardinality(DOMAIN callbackMap) = 2

-----------------------------------------------------------------------------
(* Claims about the BackupManager's selection, checked under SpecBM *)

\* The host list read cyclically from index `start` (1-based), its BACKUP
\* entries in that order, and the locators of the first n of them.
Rotation(H, start) ==
    [j \in 1..Len(H) |-> H[((start - 1 + j - 1) % Len(H)) + 1]]

BackupsFrom(H, start) ==
    SelectSeq(Rotation(H, start), LAMBDA e : e.server_type = BACKUP)

FirstBackupsFrom(H, start, n) ==
    [j \in 1..n |-> BackupsFrom(H, start)[j].service_locator]

\* C13 as stated: after a successful openSegment with replicas >= 1 on a
\* host list given by setHostList, openHosts holds exactly `replicas`
\* sessions, to pairwise distinct entries of the list, all of them BACKUPs:
\* the first `replicas` BACKUP entries in cyclic index order from some start
\* index.
C13_AsStated ==
    (/\ lastOp.op = "openSegment"
     /\ lastOp.result = "done"
     /\ replicas >= 1
     /\ coordinator.isNull) =>
        /\ Len(openHosts) = replicas
        /\ \A i, j \in 1..Len(openHosts) : i # j => openHosts[i] # openHosts[j]
        /\ \A i \in 1..Len(openHosts) :
              \E k \in 1..Len(hosts) :
                 /\ hosts[k].service_locator = openHosts[i]
                 /\ hosts[k].server_type = BACKUP
        /\ \E start \in 1..Len(hosts) :
              openHosts = FirstBackupsFrom(hosts, start, replicas)

\* The host list selectOpenHosts counts: the cached one, or the coordinator's
\* when the cached one is empty and a coordinator was supplied.
CountedHosts ==
    IF hosts = <<>> /\ ~coordinator.isNull THEN coordinator.serverList
    ELSE hosts

\* The three cases of C14.
TooFewBackups ==
    Cardinality({k \in 1..Len(CountedHosts) :
                    CountedHosts[k].server_type = BACKUP}) < replicas

NoHostsNoCoordinator == hosts = <<>> /\ coordinator.isNull

AnotherSegmentOpen == openHosts # <<>>

\* C14: with replicas >= 1, openSegment ends in the fatal state without
\* opening a session, issuing a remote call or adding to `segments` when the
\* host list it counts holds fewer than `replicas` BACKUPs, when the cached
\* list is empty and there is no coordinator, and when openHosts is not empty.
C14_OpenSegmentFatal ==
    [][(/\ lastOp'.op = "openSegment"
        /\ replicas >= 1
        /\ TooFewBackups \/ NoHostsNoCoordinator \/ AnotherSegmentOpen) =>
           /\ lastOp'.result = "fatal"
           /\ fatal' # NoFatal
           /\ openHosts' = openHosts
           /\ rpcs' = rpcs
           /\ segments' = segments
    ]_vars

\* The process died on an openSegment made while the clients of an earlier
\* segment were open, with enough backups at hand.
C14_Witness ==
    /\ lastOp.op = "openSegment"
    /\ fatal = "Cannot select new backups when some are already open"
    /\ Len(openHosts) = 2
    /\ Len(segments) = 2

-----------------------------------------------------------------------------
(* Claims about the `segments` multimap, checked under SpecBM *)

\* The sessions `segments` holds under segmentId, in the multimap's order,
\* in this state and in the next.
Entries(segmentId) ==
    LET range == SelectSeq(segments, LAMBDA e : e[1] = segmentId)
    IN [k \in 1..Len(range) |-> range[k][2]]

EntriesNext(segmentId) ==
    LET range == SelectSeq(segments', LAMBDA e : e[1] = segmentId)
    IN [k \in 1..Len(range) |-> range[k][2]]

\* The step was a successful openSegment of segmentId.
Opened(segmentId) ==
    /\ lastOp'.op = "openSegment"
    /\ lastOp'.result = "done"
    /\ lastOp'.segmentId = segmentId

\* writeSegment, closeSegment and opens of other ids leave the entries of
\* segmentId alone.
OthersKeepEntries ==
    \A id \in SegmentIds :
        (\/ lastOp'.op \in {"writeSegment", "closeSegment"}
         \/ lastOp'.op = "openSegment" /\ lastOp'.segmentId # id) =>
            EntriesNext(id) = Entries(id)

\* C15 as stated: right after a successful openSegment of an id, `segments`
\* holds exactly `replicas` entries for it, one per session in openHosts;
\* writeSegment, closeSegment and opens of other ids leave its entries alone;
\* and the number of entries of an id that has some never grows, and shrinks
\* only in a freeSegment of that id.
C15_AsStated ==
    [][/\ \A id \in SegmentIds :
             Opened(id) =>
                /\ Len(EntriesNext(id)) = replicas
                /\ EntriesNext(id) = openHosts'
       /\ OthersKeepEntries
       /\ \A id \in SegmentIds :
             /\ Entries(id) # <<>> => Len(EntriesNext(id)) <= Len(Entries(id))
             /\ Len(EntriesNext(id)) < Len(Entries(id)) =>
                   lastOp'.op = "freeSegment" /\ lastOp'.segmentId = id
    ]_vars

\* C15: a successful openSegment of an id adds exactly `replicas` entries for
\* it to `segments`, one per session in openHosts, behind those the id had:
\* exactly `replicas` in all when it had none.  writeSegment, closeSegment
\* and opens of other ids leave its entries alone; their number grows only
\* in an openSegment of that id and shrinks only in a freeSegment of that id.
C15_SegmentsEntries ==
    [][/\ \A id \in SegmentIds :
             Opened(id) =>
                /\ Len(openHosts') = replicas
                /\ EntriesNext(id) = Entries(id) \o openHosts'
       /\ OthersKeepEntries
       /\ \A id \in SegmentIds :
             /\ Len(EntriesNext(id)) > Len(Entries(id)) => Opened(id)
             /\ Len(EntriesNext(id)) < Len(Entries(id)) =>
                   lastOp'.op = "freeSegment" /\ lastOp'.segmentId = id
    ]_vars

\* With two replicas, a segment was just opened and holds two entries while
\* an earlier, closed segment still holds its two.
C15_Witness ==
    /\ lastOp.op = "openSegment"
    /\ lastOp.result = "done"
    /\ replicas = 2
    /\ Entries(lastOp.segmentId) = openHosts
    /\ \E id \in SegmentIds \ {lastOp.segmentId} : Len(Entries(id)) = 2
    /\ \E i \in 1..Len(rpcs) : rpcs[i].op = "writeSegment"

\* The remote calls the step issued.
NewRpcs == SubSeq(rpcs', Len(rpcs) + 1, Len(rpcs'))

\* C16: freeSegment(masterId, segmentId) issues one remote freeSegment for
\* every entry `segments` holds under segmentId, on that entry's session,
\* and removes those entries; it leaves the entries of the other ids and
\* openHosts as they were; it warns exactly when the number of entries
\* freed differs from `replicas`; with no entry under the id, as in a second
\* freeSegment, it contacts no backup.
C16_FreeSegment ==
    [][lastOp'.op = "freeSegment" =>
          LET id == lastOp'.segmentId
          IN /\ NewRpcs = [k \in 1..Len(Entries(id)) |->
                              Rpc("freeSegment", logId, id, k, Entries(id)[k],
                                  0, 0)]
             /\ segments' = SelectSeq(segments, LAMBDA e : e[1] # id)
             /\ EntriesNext(id) = <<>>
             /\ \A other \in SegmentIds \ {id} :
                   EntriesNext(other) = Entries(other)
             /\ openHosts' = openHosts
             /\ (trace' # <<>>) <=> (Len(Entries(id)) # replicas)
             /\ \A i \in 1..Len(trace') : trace'[i].level = "WARNING"
             /\ Entries(id) = <<>> => rpcs' = rpcs
    ]_vars

\* With two replicas, a freeSegment warned although the id was opened once
\* and both its sessions were freed before: it was the second one for the id,
\* made while another segment was open.
C16_Witness ==
    /\ lastOp.op = "freeSegment"
    /\ replicas = 2
    /\ trace # <<>>
    /\ Len(SelectSeq(rpcs, LAMBDA r : r.op = "openSegment"
                                       /\ r.segmentId = lastOp.segmentId)) = 2
    /\ Len(SelectSeq(rpcs, LAMBDA r : r.op = "freeSegment"
                                       /\ r.segmentId = lastOp.segmentId)) = 2
    /\ Entries(lastOp.segmentId) = <<>>

-----------------------------------------------------------------------------
(* BackupManager::recover: specification SpecRecover *)

\* Longest ServerList given to recover.
MaxBackups == 3

\* ~(0ul), the value segmentIdToRecover starts from: the largest value of the
\* segment id's word, here 4 bits wide.
AllOnes == 15

\* Segment ids a ServerList names: two ordinary ones and the largest.
RecoverIds == {0, 1, AllOnes}

\* What the try block of one entry ends in: getRecoveryData returned, or a
\* TransportException or a ClientException was caught.
FetchOutcomes == {"ok", "TransportException", "ClientException"}

\* A ProtoBuf::ServerList::Entry of `backups`; `fetch` is what the backup at
\* service_locator answers if recover asks it for this segment.
RecoverEntries ==
    [server_type : {BACKUP, MASTER}, has_segment_id : {TRUE},
     segment_id : RecoverIds, fetch : FetchOutcomes]
    \cup [server_type : {BACKUP, MASTER}, has_segment_id : {FALSE},
          segment_id : {0}, fetch : FetchOutcomes]

BackupLists == UNION {[1..n -> RecoverEntries] : n \in 0..MaxBackups}

\* What recover does at entry i (or, with i past the end, after the loop):
\* a log line, a getRecoveryData attempt or a recoverSegment call.
Event(ev, i, segmentId) == [ev |-> ev, i |-> i, segmentId |-> segmentId]

\* The for loop of BackupManager::recover and the test after it,
\* BackupManager.cc:123-170, from entry i on; `out` is what was done so far.
RECURSIVE recoverLoop(_, _, _, _, _)
recoverLoop(list, i, segmentIdToRecover, wasRecovered, out) ==
    IF i > Len(list)
    THEN out \o (IF ~wasRecovered
                 THEN <<Event("ERROR", i, segmentIdToRecover)>> ELSE <<>>)
    ELSE LET server == list[i]
         IN IF ~server.has_segment_id
            THEN recoverLoop(list, i + 1, segmentIdToRecover, wasRecovered,
                             out \o <<Event("WARNING", i, 0)>>)
            ELSE IF wasRecovered /\ segmentIdToRecover = server.segment_id
            THEN recoverLoop(list, i + 1, segmentIdToRecover, wasRecovered,
                     out \o <<Event("skipping", i, segmentIdToRecover)>>)
            ELSE IF server.server_type # BACKUP
            THEN recoverLoop(list, i + 1, segmentIdToRecover, wasRecovered,
                     out \o <<Event("WARNING", i, server.segment_id)>>)
            ELSE LET failed == IF ~wasRecovered
                               THEN <<Event("ERROR", i, segmentIdToRecover)>>
                               ELSE <<>>
                     asked == <<Event("getRecoveryData", i, server.segment_id)>>
                 IN IF server.fetch # "ok"
                    THEN recoverLoop(list, i + 1, server.segment_id, FALSE,
                             out \o failed \o asked
                                 \o <<Event("WARNING", i, server.segment_id)>>)
                    ELSE recoverLoop(list, i + 1, server.segment_id, TRUE,
                             out \o failed \o asked
                                 \o <<Event("recoverSegment", i,
                                            server.segment_id)>>)

\* BackupManager::recover, BackupManager.cc:114-171.  It reads and writes no
\* field of the BackupManager.
recover(list) == recoverLoop(list, 1, AllOnes, TRUE, <<>>)

InitRecover ==
    /\ \E list \in BackupLists : backups = list
    /\ Start(Constructed(segmentCapacity, NoCoordinator, 0))

\* A call of BackupManager::recover(recoveryMaster, masterId, tablets, backups).
BMRecover ==
    /\ fatal = NoFatal
    /\ lastOp' = Call("recover", 0, 0, "done", NULL)
    /\ trace' = recover(backups)
    /\ UNCHANGED <<logCapacity, segmentFreeList, nextSegmentId,
                   maximumAppendableBytes, head, activeIdMap,
                   activeBaseAddressMap, segs, coordinator, hosts, openHosts,
                   replicas, segments, rpcs, fatal, ptrs, lastTerminal, calls,
                   callbackMap, iterations, backups>>

NextRecover == BMRecover

SpecRecover == InitRecover /\ [][NextRecover]_vars

-----------------------------------------------------------------------------
(* Claims about recovery, checked under SpecRecover *)

Recovered == lastOp.op = "recover"

\* The entries naming segment id s, and whether they lie side by side.
EntriesOf(s) ==
    {i \in 1..Len(backups) :
        backups[i].has_segment_id /\ backups[i].segment_id = s}

Consecutive ==
    \A s \in RecoverIds :
        \A i \in EntriesOf(s), k \in EntriesOf(s) :
            \A j \in i..k : j \in EntriesOf(s)

\* The BACKUP entries for s, and those whose getRecoveryData succeeds.
Candidates(s) == {i \in EntriesOf(s) : backups[i].server_type = BACKUP}
Good(s) == {i \in Candidates(s) : backups[i].fetch = "ok"}
First(I) == CHOOSE i \in I : \A j \in I : i <= j

\* What the call did, of one kind and for one segment id.
Events(ev, s) == SelectSeq(trace, LAMBDA e : e.ev = ev /\ e.segmentId = s)

\* The claim for segment id s.
ExactlyOnceWithFallback(s) ==
    /\ Good(s) # {} =>
          Events("recoverSegment", s)
              = <<Event("recoverSegment", First(Good(s)), s)>>
    /\ Good(s) = {} => Events("recoverSegment", s) = <<>>
    /\ Good(s) # {} =>
          \A k \in 1..Len(trace) :
              trace[k].ev = "getRecoveryData" /\ trace[k].segmentId = s
                  => trace[k].i <= First(Good(s))
    /\ \A i \in Candidates(s) :
          Good(s) = {} \/ i <= First(Good(s)) =>
              Len(SelectSeq(Events("getRecoveryData", s),
                            LAMBDA e : e.i = i)) = 1

\* C17: for a list in which the entries of one segment id are consecutive,
\* recover calls recoverSegment exactly once for every segment id with a
\* BACKUP entry whose getRecoveryData succeeds, with the data of the first
\* such entry, and never for an id all of whose candidates fail; no entry of
\* the id is asked after the success, and every candidate up to it is asked
\* once.
C17_AsStated ==
    Recovered /\ Consecutive => \A s \in RecoverIds : ExactlyOnceWithFallback(s)

\* Whether the ERROR logged at place k of the trace is one the claim allows:
\* the walk stood at an entry naming another id, or past the end, and no
\* fetch for the id had succeeded.
ErrorIsDue(k) ==
    LET e == trace[k]
    IN /\ e.i > Len(backups) \/ e.i \notin EntriesOf(e.segmentId)
       /\ \A j \in 1..(k - 1) :
             ~(trace[j].ev = "recoverSegment"
               /\ trace[j].segmentId = e.segmentId)

\* C18: recover logs the ERROR for segment id s only on reaching an entry
\* with another id, or the end of the list, while no fetch for s succeeded;
\* it logs none for s when the first candidate for s fails and the next
\* entry, a candidate for s too, succeeds.
C18_AsStated ==
    Recovered =>
        /\ \A k \in 1..Len(trace) : trace[k].ev = "ERROR" => ErrorIsDue(k)
        /\ \A s \in RecoverIds :
              \A i \in Candidates(s) :
                  /\ i = First(Candidates(s))
                  /\ backups[i].fetch # "ok"
                  /\ i + 1 \in Good(s)
                  => Events("ERROR", s) = <<>>

-----------------------------------------------------------------------------
(* Claims about forEachSegment, checked under SpecEach *)

Walked == lastOp.op = "forEachSegment"

\* The ids of the Segments cb was invoked on, in order.
VisitedIds == [k \in 1..Len(trace) |-> segs[trace[k]].id]

\* After forEachSegment(cb, limit, cookie): cb was invoked min(limit, number
\* of active segments) times, on active segments, in strictly ascending id
\* order, and on no segment with a larger id than one left out.
VisitsSmallestAscending ==
    Walked =>
        LET active == DOMAIN activeIdMap
            n == Cardinality(active)
            visited == {VisitedIds[k] : k \in 1..Len(trace)}
        IN /\ Len(trace) = IF lastOp.length < n THEN lastOp.length ELSE n
           /\ \A k \in 1..Len(trace) :
                 /\ VisitedIds[k] \in active
                 /\ activeIdMap[VisitedIds[k]] = trace[k]
           /\ \A k \in 1..(Len(trace) - 1) : VisitedIds[k] < VisitedIds[k + 1]
           /\ \A v \in visited : \A a \in active \ visited : v < a

\* forEachSegment changes neither the maps, nor the free list, nor the head,
\* nor any Segment.
WalkChangesNothing ==
    lastOp'.op = "forEachSegment" =>
        UNCHANGED <<activeIdMap, activeBaseAddressMap, segmentFreeList, head,
                    segs, nextSegmentId>>

\* C19: forEachSegment(cb, limit, cookie) invokes cb exactly min(limit,
\* number of active segments) times, on the active segments with the
\* smallest ids, in strictly ascending id order, and modifies neither the
\* active maps, nor the free list, nor the head.
C19_ForEachSegment == [](VisitsSmallestAscending) /\ [][WalkChangesNothing]_vars

\* A walk with limit 1 over two active segments, the smaller of which is not
\* segment 0 (that one was evicted): cb saw one segment and one was left out.
C19_Witness ==
    /\ Walked
    /\ lastOp.length = 1
    /\ Cardinality(DOMAIN activeIdMap) = 2
    /\ 0 \notin DOMAIN activeIdMap
    /\ Len(trace) = 1

-----------------------------------------------------------------------------
(* Claims about the work of one append, checked under Spec *)

\* After an append: the do-while loop ran at most twice, and a second pass,
\* made on the head the first one created, returned a pointer.
AtMostTwoPasses ==
    lastOp.op = "append" =>
        /\ iterations <= 2
        /\ lastOp.result = "pointer" => iterations \in {1, 2}
        /\ iterations = 2 => lastOp.result = "pointer" /\ head # NULL

\* The heads an append step closed.
ClosedByStep == {h \in 1..Len(segs) : segs'[h].closed /\ ~segs[h].closed}

\* An append closes at most one head, pops at most one buffer, constructs at
\* most one Segment and allocates at most one segment id.
AtMostOneRoll ==
    lastOp'.op = "append" =>
        /\ Cardinality(ClosedByStep) <= 1
        /\ Len(segmentFreeList) - Len(segmentFreeList') <= 1
        /\ Len(segs') - Len(segs) <= 1
        /\ nextSegmentId' - nextSegmentId <= 1
        /\ lastOp'.result = "raised" =>
              /\ iterations' = 0
              /\ ClosedByStep = {}
              /\ UNCHANGED <<segmentFreeList, segs, nextSegmentId>>

-----------------------------------------------------------------------------
(* The skip test of recover, checked under SpecRecover *)

\* Whether the entry skipped at place k of the trace had its segment
\* recovered before, in the same call.
SkipIsDue(k) ==
    \E j \in 1..(k - 1) :
        /\ trace[j].ev = "recoverSegment"
        /\ trace[j].segmentId = trace[k].segmentId

\* The BACKUP entries that carry a segment id.
BackupEntries ==
    {i \in 1..Len(backups) :
        backups[i].has_segment_id /\ backups[i].server_type = BACKUP}

\* C21: recover skips an entry as already recovered only if it invoked
\* recoverSegment for the entry's segment id before, in the same call; the
\* first BACKUP entry of the list is never skipped, whatever its segment id,
\* the largest one included.
C21_AsStated ==
    Recovered =>
        /\ \A k \in 1..Len(trace) : trace[k].ev = "skipping" => SkipIsDue(k)
        /\ BackupEntries # {} =>
              \A k \in 1..Len(trace) :
                  trace[k].ev = "skipping" => trace[k].i # First(BackupEntries)

====
